---- MODULE Spec2Model ----
(***************************************************************************)
(* The tool-call round trip of callFunction.ipynb ("Step 1: Try Custom     *)
(* Function", source lines 43-181), run top to bottom: a cell that raises  *)
(* stops the run.  The hosted model and the weather endpoint are the       *)
(* environment: what they return, and whether the transport fails, is      *)
(* chosen nondeterministically from bounded sets.                          *)
(*                                                                         *)
(* JSON text is modelled as its sequence of lexemes; numbers keep their    *)
(* digits, so parsing (json.loads / response.json()) and formatting        *)
(* (str(), f-string) are computed, not assumed.                            *)
(***************************************************************************)
EXTENDS Integers, Sequences, FiniteSets, TLC

VARIABLES
    pc,              \* the cell about to run, or the call the run is blocked in
    input_messages,  \* the list input_messages
    response,        \* the first response (its output list)
    tool_call, args, result,   \* the names the dispatch cell assigns
    requests,        \* the completion requests sent so far, in order
    weather_calls,   \* the calls of get_weather made so far (positional arguments)
    http_gets,       \* the GET requests sent to the weather endpoint
    weather_reply,   \* the body the weather endpoint replied with
    error, error_at, \* the exception that ended the run, and the statement that raised it
    printed          \* what print() has written

vars == <<pc, input_messages, response, tool_call, args, result,
          requests, weather_calls, http_gets, weather_reply, error, error_at, printed>>

\* Largest number of items in one response.output.
MaxOutputItems == 2

----------------------------------------------------------------------------
(* Python values *)

PyNone == [t |-> "none", neg |-> FALSE, n |-> 0, fp |-> <<>>, s |-> ""]
PyInt(neg, n) == [t |-> "int", neg |-> neg, n |-> n, fp |-> <<>>, s |-> ""]
PyFloat(neg, n, fp) == [t |-> "float", neg |-> neg, n |-> n, fp |-> fp, s |-> ""]
PyStr(s) == [t |-> "str", neg |-> FALSE, n |-> 0, fp |-> <<>>, s |-> s]
PyBool(b) == [t |-> "bool", neg |-> FALSE, n |-> IF b THEN 1 ELSE 0, fp |-> <<>>, s |-> ""]
PyDict(d) == [t |-> "dict", items |-> d]

\* A name that has not been assigned yet.
Unset == [t |-> "unset"]

----------------------------------------------------------------------------
(* JSON lexemes *)

Punct(s) == [k |-> "punct", s |-> s, neg |-> FALSE, ip |-> <<>>, fp |-> <<>>]
StrTok(s) == [k |-> "str", s |-> s, neg |-> FALSE, ip |-> <<>>, fp |-> <<>>]
LitTok(s) == [k |-> "lit", s |-> s, neg |-> FALSE, ip |-> <<>>, fp |-> <<>>]
NumTok(neg, ip, fp) == [k |-> "num", s |-> "", neg |-> neg, ip |-> ip, fp |-> fp]
\* A string literal cut before its closing quote.
CutStrTok(s) == [k |-> "cutstr", s |-> s, neg |-> FALSE, ip |-> <<>>, fp |-> <<>>]

RECURSIVE DigitsToNat(_)
DigitsToNat(ds) ==
    IF Len(ds) = 0 THEN 0
    ELSE 10 * DigitsToNat(SubSeq(ds, 1, Len(ds) - 1)) + ds[Len(ds)]

RECURSIVE StripTrailingZeros(_)
StripTrailingZeros(ds) ==
    IF Len(ds) > 1 /\ ds[Len(ds)] = 0
    THEN StripTrailingZeros(SubSeq(ds, 1, Len(ds) - 1))
    ELSE ds

\* The Python number a JSON number literal denotes: int without a
\* fraction part, float with one.
NumValue(tk) ==
    IF Len(tk.fp) = 0 THEN PyInt(tk.neg, DigitsToNat(tk.ip))
    ELSE PyFloat(tk.neg, DigitsToNat(tk.ip), StripTrailingZeros(tk.fp))

ParseFail == [ok |-> FALSE, val |-> PyNone, next |-> 0]

RECURSIVE ParseValue(_, _), ParseMembers(_, _, _)
ParseValue(toks, i) ==
    IF i > Len(toks) THEN ParseFail
    ELSE LET tk == toks[i] IN
         CASE tk.k = "num" -> [ok |-> TRUE, val |-> NumValue(tk), next |-> i + 1]
           [] tk.k = "str" -> [ok |-> TRUE, val |-> PyStr(tk.s), next |-> i + 1]
           [] tk.k = "lit" /\ tk.s = "null" ->
                [ok |-> TRUE, val |-> PyNone, next |-> i + 1]
           [] tk.k = "lit" /\ tk.s \in {"true", "false"} ->
                [ok |-> TRUE, val |-> PyBool(tk.s = "true"), next |-> i + 1]
           [] tk = Punct("{") ->
                IF i + 1 <= Len(toks) /\ toks[i + 1] = Punct("}")
                THEN [ok |-> TRUE, val |-> PyDict(<<>>), next |-> i + 2]
                ELSE ParseMembers(toks, i + 1, <<>>)
           [] OTHER -> ParseFail

ParseMembers(toks, i, d) ==
    IF i + 1 > Len(toks) \/ toks[i].k # "str" \/ toks[i + 1] # Punct(":")
    THEN ParseFail
    ELSE LET v == ParseValue(toks, i + 2) IN
         IF ~v.ok \/ v.next > Len(toks) THEN ParseFail
         ELSE LET d2 == (toks[i].s :> v.val) @@ d IN
              IF toks[v.next] = Punct("}")
              THEN [ok |-> TRUE, val |-> PyDict(d2), next |-> v.next + 1]
              ELSE IF toks[v.next] = Punct(",")
              THEN ParseMembers(toks, v.next + 1, d2)
              ELSE ParseFail

\* A decoder that closes an object the text leaves open.
json_decode_repair(toks) ==
    LET r == ParseValue(toks, 1)
        r2 == ParseValue(Append(toks, Punct("}")), 1)
    IN  IF r.ok /\ r.next = Len(toks) + 1 THEN [ok |-> TRUE, val |-> r.val]
        ELSE IF r2.ok /\ r2.next = Len(toks) + 2 THEN [ok |-> TRUE, val |-> r2.val]
        ELSE [ok |-> FALSE, val |-> PyNone]

\* Decoding one JSON text: the whole text must be one JSON value, otherwise
\* JSONDecodeError (ok = FALSE).
json_decode(toks) ==
    LET r == ParseValue(toks, 1) IN
    IF r.ok /\ r.next = Len(toks) + 1
    THEN [ok |-> TRUE, val |-> r.val]
    ELSE [ok |-> FALSE, val |-> PyNone]

\* obj[key] for a str key.
Subscript(obj, key) ==
    IF obj.t # "dict" THEN [err |-> "TypeError", val |-> PyNone]
    ELSE IF key \notin DOMAIN obj.items THEN [err |-> "KeyError", val |-> PyNone]
    ELSE [err |-> "none", val |-> obj.items[key]]

----------------------------------------------------------------------------
(* str() / f-string formatting *)

DigitChar(d) ==
    CASE d = 0 -> "0" [] d = 1 -> "1" [] d = 2 -> "2" [] d = 3 -> "3"
      [] d = 4 -> "4" [] d = 5 -> "5" [] d = 6 -> "6" [] d = 7 -> "7"
      [] d = 8 -> "8" [] d = 9 -> "9"

RECURSIVE NatToStr(_)
NatToStr(n) ==
    IF n < 10 THEN DigitChar(n) ELSE NatToStr(n \div 10) \o DigitChar(n % 10)

RECURSIVE DigitsToStr(_)
DigitsToStr(ds) ==
    IF Len(ds) = 0 THEN "" ELSE DigitChar(Head(ds)) \o DigitsToStr(Tail(ds))

str(v) ==
    CASE v.t = "int" -> (IF v.neg THEN "-" ELSE "") \o NatToStr(v.n)
      [] v.t = "float" ->
            (IF v.neg THEN "-" ELSE "") \o NatToStr(v.n) \o "." \o DigitsToStr(v.fp)
      [] v.t = "str" -> v.s
      [] v.t = "bool" -> IF v.n = 1 THEN "True" ELSE "False"
      [] v.t = "none" -> "None"

----------------------------------------------------------------------------
(* What the environment can send *)

LatTokyo == NumTok(FALSE, <<3, 5>>, <<6, 8, 2, 8, 3, 9>>)
LonTokyo == NumTok(FALSE, <<1, 3, 9>>, <<7, 5, 9, 4, 5, 5>>)

\* {"latitude":35.682839,"longitude":139.759455}
ArgsTokyo ==
    << Punct("{"), StrTok("latitude"), Punct(":"), LatTokyo, Punct(","),
       StrTok("longitude"), Punct(":"), LonTokyo, Punct("}") >>
\* {"longitude":139.759455,"latitude":35.682839}
ArgsLonFirst ==
    << Punct("{"), StrTok("longitude"), Punct(":"), LonTokyo, Punct(","),
       StrTok("latitude"), Punct(":"), LatTokyo, Punct("}") >>
\* {"latitude":-33,"longitude":151}
ArgsSydney ==
    << Punct("{"), StrTok("latitude"), Punct(":"), NumTok(TRUE, <<3, 3>>, <<>>),
       Punct(","), StrTok("longitude"), Punct(":"), NumTok(FALSE, <<1, 5, 1>>, <<>>),
       Punct("}") >>
\* {"latitude":35.682839}
ArgsNoLongitude ==
    << Punct("{"), StrTok("latitude"), Punct(":"), LatTokyo, Punct("}") >>
\* 7
ArgsBareNumber == << NumTok(FALSE, <<7>>, <<>>) >>
\* {"latitude":35.682839,"longitude":139.759455
ArgsTruncated == SubSeq(ArgsTokyo, 1, 8)
\* {"latitude":35.682839,"longi
ArgsCutString == SubSeq(ArgsTokyo, 1, 5) \o << CutStrTok("longi") >>

WellFormedArgs == {ArgsTokyo, ArgsLonFirst, ArgsSydney, ArgsNoLongitude, ArgsBareNumber}
MalformedArgs == {ArgsTruncated, ArgsCutString}
ArgTexts == WellFormedArgs \cup MalformedArgs

FunctionNames == {"get_weather", "get_time"}

\* ResponseFunctionToolCall(arguments, call_id, name, type, id, status) as
\* the i-th item of an output list: the service gives every item its own id
\* and every function call its own call_id.
FunctionCall(i, name, arguments) ==
    [type |-> "function_call", id |-> "fc_" \o NatToStr(i),
     call_id |-> "call_" \o NatToStr(i),
     name |-> name, arguments |-> arguments, status |-> "completed"]
\* ResponseOutputMessage as the i-th item.
OutputMessage(i, text) ==
    [type |-> "message", id |-> "msg_" \o NatToStr(i), role |-> "assistant",
     text |-> text, status |-> "completed"]

\* What an item can be, its position apart.
ItemShapes ==
    {[type |-> "function_call", name |-> n, arguments |-> a] :
        n \in FunctionNames, a \in ArgTexts}
    \cup {[type |-> "message", text |-> "Which city do you mean?"]}

OutputItem(i, shape) ==
    IF shape.type = "function_call"
    THEN FunctionCall(i, shape.name, shape.arguments)
    ELSE OutputMessage(i, shape.text)

\* The output lists of n items.
OutputsOfLen(n) ==
    {[i \in 1..n |-> OutputItem(i, shapes[i])] : shapes \in [1..n -> ItemShapes]}

\* The responses client.responses.create can return, as far as the notebook
\* reads them: an output list of at most MaxOutputItems items.
Responses ==
    {[output |-> o] : o \in UNION {OutputsOfLen(n) : n \in 0..MaxOutputItems}}

Temp(neg, ip, fp) == NumTok(neg, ip, fp)
Wind == NumTok(FALSE, <<3>>, <<4>>)

\* {"current":{"temperature_2m":T}}
BodyTempOnly(t) ==
    << Punct("{"), StrTok("current"), Punct(":"), Punct("{"),
       StrTok("temperature_2m"), Punct(":"), t, Punct("}"), Punct("}") >>
\* {"latitude":35.7,"current":{"temperature_2m":T,"wind_speed_10m":3.4}}
BodyFull(t) ==
    << Punct("{"), StrTok("latitude"), Punct(":"), NumTok(FALSE, <<3, 5>>, <<7>>),
       Punct(","), StrTok("current"), Punct(":"), Punct("{"),
       StrTok("temperature_2m"), Punct(":"), t, Punct(","),
       StrTok("wind_speed_10m"), Punct(":"), Wind, Punct("}"), Punct("}") >>
\* {"error":true,"reason":"Latitude must be in range of -90 to 90"}
BodyError ==
    << Punct("{"), StrTok("error"), Punct(":"), LitTok("true"), Punct(","),
       StrTok("reason"), Punct(":"), StrTok("Latitude must be in range of -90 to 90"),
       Punct("}") >>
\* {"current":{"wind_speed_10m":3.4}}
BodyNoTemperature ==
    << Punct("{"), StrTok("current"), Punct(":"), Punct("{"),
       StrTok("wind_speed_10m"), Punct(":"), Wind, Punct("}"), Punct("}") >>

T20_5 == Temp(FALSE, <<2, 0>>, <<5>>)
WeatherBodies ==
    { BodyTempOnly(T20_5),
      BodyFull(T20_5),
      BodyFull(Temp(TRUE, <<3>>, <<>>)),
      BodyFull(Temp(FALSE, <<1, 8>>, <<0>>)),
      BodyFull(LitTok("null")),
      BodyError,
      BodyNoTemperature,
      SubSeq(BodyFull(T20_5), 1, 11) }

\* json.loads(text) and requests' response.json(), tabulated once over the
\* texts the environment can send.
JsonTexts == ArgTexts \cup WeatherBodies
Decoded == [text \in JsonTexts |-> json_decode(text)]
json_loads(text) == Decoded[text]

OutputTexts == {"The weather in Tokyo today is 20.5 C.", "I could not get the weather."}

----------------------------------------------------------------------------
(* The notebook's own values *)

tools ==
    << [type |-> "function", name |-> "get_weather", strict |-> TRUE,
        required |-> {"latitude", "longitude"}] >>

UserMessage == [role |-> "user", content |-> "What's the weather like in Tokyo today?"]

\* The keyword arguments of client.responses.create; input is the list as
\* it is when the call is made.
CreateRequest(input) == [model |-> "gpt-4o", input |-> input, tools |-> tools]

HasAttr(item, a) == a \in DOMAIN item

\* requests.get(f"...?latitude={latitude}&longitude={longitude}&current=...")
get_weather_url(latitude, longitude) ==
    [host |-> "api.open-meteo.com", path |-> "/v1/forecast",
     latitude |-> str(latitude), longitude |-> str(longitude),
     current |-> "temperature_2m,wind_speed_10m"]

\* get_weather returning another field of "current".
get_weather_return_wind(body) ==
    LET data == json_loads(body) IN
    IF ~data.ok THEN [err |-> "JSONDecodeError", val |-> PyNone]
    ELSE LET cur == Subscript(data.val, "current") IN
         IF cur.err # "none" THEN [err |-> cur.err, val |-> PyNone]
         ELSE Subscript(cur.val, "wind_speed_10m")

\* data = response.json(); return data["current"]["temperature_2m"]
get_weather_return(body) ==
    LET data == json_loads(body) IN
    IF ~data.ok THEN [err |-> "JSONDecodeError", val |-> PyNone]
    ELSE LET cur == Subscript(data.val, "current") IN
         IF cur.err # "none" THEN [err |-> cur.err, val |-> PyNone]
         ELSE Subscript(cur.val, "temperature_2m")

\* The call with its two arguments in the other order.
get_weather_args_swapped(a) ==
    LET lat == Subscript(a, "latitude")
        lon == Subscript(a, "longitude")
    IN  IF lat.err # "none" THEN [err |-> lat.err, latitude |-> PyNone, longitude |-> PyNone]
        ELSE IF lon.err # "none" THEN [err |-> lon.err, latitude |-> PyNone, longitude |-> PyNone]
        ELSE [err |-> "none", latitude |-> lon.val, longitude |-> lat.val]

\* The positional arguments of the call get_weather(args["latitude"], args["longitude"]).
get_weather_args(a) ==
    LET lat == Subscript(a, "latitude")
        lon == Subscript(a, "longitude")
    IN  IF lat.err # "none" THEN [err |-> lat.err, latitude |-> PyNone, longitude |-> PyNone]
        ELSE IF lon.err # "none" THEN [err |-> lon.err, latitude |-> PyNone, longitude |-> PyNone]
        ELSE [err |-> "none", latitude |-> lat.val, longitude |-> lon.val]

\* args = json.loads(tool_call.arguments), then the arguments of the call
\* of get_weather; err names the exception that ends the cell, at the
\* statement that raised.
DispatchCall(tc) ==
    LET parsed == json_loads(tc.arguments) IN
    IF ~parsed.ok
    THEN [err |-> "JSONDecodeError", at |-> "json.loads",
          tool_call |-> tc, args |-> Unset, call |-> Unset]
    ELSE LET c == get_weather_args(parsed.val) IN
         IF c.err # "none"
         THEN [err |-> c.err, at |-> "args[...]",
               tool_call |-> tc, args |-> parsed.val, call |-> Unset]
         ELSE [err |-> "none", at |-> "",
               tool_call |-> tc, args |-> parsed.val,
               call |-> [latitude |-> c.latitude, longitude |-> c.longitude]]

\* A dispatcher that looks the name up among the registered functions.
DispatchOutcomeByName(output) ==
    IF Len(output) = 0
    THEN [err |-> "IndexError", at |-> "response.output[0]",
          tool_call |-> Unset, args |-> Unset, call |-> Unset]
    ELSE IF HasAttr(output[1], "name") /\ output[1].name # "get_weather"
    THEN [err |-> "KeyError", at |-> "args[...]",
          tool_call |-> output[1], args |-> Unset, call |-> Unset]
    ELSE IF ~HasAttr(output[1], "arguments")
    THEN [err |-> "AttributeError", at |-> "tool_call.arguments",
          tool_call |-> output[1], args |-> Unset, call |-> Unset]
    ELSE DispatchCall(output[1])

\* The dispatch cell up to the call of get_weather: tool_call =
\* response.output[0], then the statements of DispatchCall.
DispatchOutcome(output) ==
    IF Len(output) = 0
    THEN [err |-> "IndexError", at |-> "response.output[0]",
          tool_call |-> Unset, args |-> Unset, call |-> Unset]
    ELSE IF ~HasAttr(output[1], "arguments")
    THEN [err |-> "AttributeError", at |-> "tool_call.arguments",
          tool_call |-> output[1], args |-> Unset, call |-> Unset]
    ELSE DispatchCall(output[1])

\* An output item that carries the item's id instead of its call_id.
FunctionCallOutputById(tc, res) ==
    [type |-> "function_call_output", call_id |-> tc.id, output |-> str(res)]

\* {"type": "function_call_output", "call_id": tool_call.call_id, "output": str(result)}
FunctionCallOutput(tc, res) ==
    [type |-> "function_call_output", call_id |-> tc.call_id, output |-> str(res)]

\* Only the two new items, without the history.
FollowupInputDeltaOnly(msgs, tc, res) ==
    << tc, FunctionCallOutput(tc, res) >>

\* Every function call of the response appended, each with an output.
RECURSIVE AppendAllCalls(_, _, _)
AppendAllCalls(msgs, output, res) ==
    IF Len(output) = 0 THEN msgs
    ELSE IF HasAttr(Head(output), "arguments")
    THEN AppendAllCalls(
             Append(Append(msgs, Head(output)), FunctionCallOutput(Head(output), res)),
             Tail(output), res)
    ELSE AppendAllCalls(msgs, Tail(output), res)

FollowupInputAllCalls(msgs, tc, res) == AppendAllCalls(msgs, response.output, res)

\* input_messages after the two appends of the follow-up cell.
FollowupInput(msgs, tc, res) ==
    Append(Append(msgs, tc), FunctionCallOutput(tc, res))

----------------------------------------------------------------------------
(* The run *)

Init ==
    /\ pc = "input"
    /\ input_messages = <<>>
    /\ response = Unset
    /\ tool_call = Unset
    /\ args = Unset
    /\ result = Unset
    /\ requests = <<>>
    /\ weather_calls = <<>>
    /\ http_gets = <<>>
    /\ weather_reply = Unset
    /\ error = "none"
    /\ error_at = ""
    /\ printed = <<>>

Raise(e, at) ==
    /\ pc' = "error"
    /\ error' = e
    /\ error_at' = at

\* input_messages = [{"role": "user", "content": ...}]
ComposeInput ==
    /\ pc = "input"
    /\ input_messages' = << UserMessage >>
    /\ pc' = "create"
    /\ UNCHANGED <<response, tool_call, args, result, requests, weather_calls,
                   http_gets, weather_reply, error, error_at, printed>>

\* response = client.responses.create(...): the request leaves.
CreateCall ==
    /\ pc = "create"
    /\ requests' = Append(requests, CreateRequest(input_messages))
    /\ pc' = "create_wait"
    /\ UNCHANGED <<input_messages, response, tool_call, args, result, weather_calls,
                   http_gets, weather_reply, error, error_at, printed>>

\* ... and the response arrives.
CreateReturn ==
    /\ pc = "create_wait"
    /\ response' \in Responses
    /\ pc' = "dispatch"
    /\ UNCHANGED <<input_messages, tool_call, args, result, requests, weather_calls,
                   http_gets, weather_reply, error, error_at, printed>>

\* The call retried once after a failure.
CreateRaiseRetry ==
    /\ pc = "create_wait"
    /\ IF Len(requests) < 2
       THEN /\ pc' = "create"
            /\ UNCHANGED <<error, error_at>>
       ELSE Raise("APIConnectionError", "client.responses.create")
    /\ UNCHANGED <<input_messages, response, tool_call, args, result, requests,
                   weather_calls, http_gets, weather_reply, printed>>

\* ... or the call raises (no try/except anywhere in the notebook).
CreateRaise ==
    /\ pc = "create_wait"
    /\ Raise("APIConnectionError", "client.responses.create")
    /\ UNCHANGED <<input_messages, response, tool_call, args, result, requests,
                   weather_calls, http_gets, weather_reply, printed>>

\* tool_call = response.output[0]; args = json.loads(tool_call.arguments);
\* result = get_weather(args["latitude"], args["longitude"]) up to requests.get.
Dispatch ==
    /\ pc = "dispatch"
    /\ LET o == DispatchOutcome(response.output) IN
       /\ tool_call' = o.tool_call
       /\ args' = o.args
       /\ IF o.err # "none"
          THEN /\ Raise(o.err, o.at)
               /\ UNCHANGED <<weather_calls, http_gets>>
          ELSE /\ weather_calls' = Append(weather_calls, o.call)
               /\ http_gets' = Append(http_gets,
                                      get_weather_url(o.call.latitude, o.call.longitude))
               /\ pc' = "get_weather_wait"
               /\ UNCHANGED <<error, error_at>>
    /\ UNCHANGED <<input_messages, response, result, requests, weather_reply, printed>>

\* requests.get returns; get_weather returns or raises; result is assigned.
GetWeatherReturn(body) ==
    /\ pc = "get_weather_wait"
    /\ weather_reply' = [body |-> body]
    /\ LET r == get_weather_return(body) IN
       IF r.err # "none"
       THEN /\ Raise(r.err, "get_weather")
            /\ UNCHANGED result
       ELSE /\ result' = r.val
            /\ pc' = "followup"
            /\ UNCHANGED <<error, error_at>>
    /\ UNCHANGED <<input_messages, response, tool_call, args, requests, weather_calls,
                   http_gets, printed>>

\* requests.get raises.
GetWeatherRaise ==
    /\ pc = "get_weather_wait"
    /\ Raise("ConnectionError", "requests.get")
    /\ UNCHANGED <<input_messages, response, tool_call, args, result, requests,
                   weather_calls, http_gets, weather_reply, printed>>

\* The two appends, then response_2 = client.responses.create(...) leaves.
Followup ==
    /\ pc = "followup"
    /\ input_messages' = FollowupInput(input_messages, tool_call, result)
    /\ requests' = Append(requests, CreateRequest(input_messages'))
    /\ pc' = "followup_wait"
    /\ UNCHANGED <<response, tool_call, args, result, weather_calls, http_gets,
                   weather_reply, error, error_at, printed>>

\* A loop that dispatches again after the follow-up response.
FollowupReturnLoop(text) ==
    /\ pc = "followup_wait"
    /\ printed' = Append(printed, text)
    /\ pc' = IF Len(requests) < 3 THEN "dispatch" ELSE "done"
    /\ UNCHANGED <<input_messages, response, tool_call, args, result, requests,
                   weather_calls, http_gets, weather_reply, error, error_at>>

\* response_2 arrives; print(response_2.output_text).
FollowupReturn(text) ==
    /\ pc = "followup_wait"
    /\ printed' = Append(printed, text)
    /\ pc' = "done"
    /\ UNCHANGED <<input_messages, response, tool_call, args, result, requests,
                   weather_calls, http_gets, weather_reply, error, error_at>>

FollowupRaise ==
    /\ pc = "followup_wait"
    /\ Raise("APIConnectionError", "client.responses.create (follow-up)")
    /\ UNCHANGED <<input_messages, response, tool_call, args, result, requests,
                   weather_calls, http_gets, weather_reply, printed>>

Next ==
    \/ ComposeInput
    \/ CreateCall
    \/ CreateReturn
    \/ CreateRaise
    \/ Dispatch
    \/ \E body \in WeatherBodies : GetWeatherReturn(body)
    \/ GetWeatherRaise
    \/ Followup
    \/ \E text \in OutputTexts : FollowupReturn(text)
    \/ FollowupRaise

Spec == Init /\ [][Next]_vars

\* The blocking calls return or raise, and the next cell runs.
FairSpec == Spec /\ WF_vars(Next)

----------------------------------------------------------------------------
(* Vocabulary of the properties *)

IsFunctionCall(m) == HasAttr(m, "type") /\ m.type = "function_call"
IsFunctionCallOutput(m) == HasAttr(m, "type") /\ m.type = "function_call_output"

Positions(seq, P(_)) == {i \in 1..Len(seq) : P(seq[i])}

\* The run has gone past the dispatch cell's first statements.
Dispatched == pc \notin {"input", "create", "create_wait", "dispatch"}

\* C1: for a one-message input whose first response yields a function call,
\* the input of the second completion request is the input of the first one
\* with exactly two items appended: the function-call item as received, then
\* a function_call_output item.
C1_FollowupIsFirstInputPlusTwo ==
    Len(requests) = 2 =>
        LET a == requests[1].input
            b == requests[2].input
        IN  /\ a = << UserMessage >>
            /\ Len(b) = Len(a) + 2
            /\ SubSeq(b, 1, Len(a)) = a
            /\ b[Len(a) + 1] = response.output[1]
            /\ IsFunctionCall(b[Len(a) + 1])
            /\ IsFunctionCallOutput(b[Len(a) + 2])

C1_Witness ==
    /\ Len(requests) = 2
    /\ Len(requests[1].input) = 1
    /\ IsFunctionCall(response.output[1])

\* Every function_call_output of seq answers a function call that sits
\* before it in seq.
OutputsFollowTheirCall(seq) ==
    \A i \in Positions(seq, IsFunctionCallOutput) :
        \E j \in 1..(i - 1) :
            IsFunctionCall(seq[j]) /\ seq[j].call_id = seq[i].call_id

\* C2: in every reachable state each function_call_output item of the
\* message sequence (and of every request sent) carries the call_id of a
\* function-call item at an earlier position of the same sequence.
C2_OutputCallIdMatchesEarlierCall ==
    /\ OutputsFollowTheirCall(input_messages)
    /\ \A r \in 1..Len(requests) : OutputsFollowTheirCall(requests[r].input)

C2_Witness ==
    /\ Positions(input_messages, IsFunctionCallOutput) # {}
    /\ input_messages[3].call_id = "call_1"
    /\ Len(response.output) >= 2
    /\ IsFunctionCall(response.output[2])

\* response.output_text: the text of the message items, in order.
RECURSIVE OutputText(_)
OutputText(output) ==
    IF Len(output) = 0 THEN ""
    ELSE (IF IsFunctionCall(Head(output)) THEN "" ELSE Head(output).text)
         \o OutputText(Tail(output))

\* C3: a first response without any function-call item skips dispatch and
\* follow-up: nothing parsed, no function invoked, nothing appended, no
\* second request, and the text of the first response is what the run
\* returns.
C3_NoFunctionCallReturnsText ==
    (/\ response # Unset
     /\ Positions(response.output, IsFunctionCall) = {}
     /\ pc # "dispatch")
    => /\ pc = "done"
       /\ error = "none"
       /\ args = Unset
       /\ weather_calls = <<>>
       /\ input_messages = << UserMessage >>
       /\ Len(requests) = 1
       /\ printed = << OutputText(response.output) >>

\* C4: malformed JSON in the arguments of the function-call item makes
\* json.loads raise before get_weather is called: no call, no GET, the
\* message sequence unchanged, no second request.
C4_MalformedArgumentsRaiseBeforeCall ==
    (/\ tool_call # Unset
     /\ HasAttr(tool_call, "arguments")
     /\ tool_call.arguments \in MalformedArgs)
    => /\ pc = "error"
       /\ error = "JSONDecodeError"
       /\ error_at = "json.loads"
       /\ args = Unset
       /\ weather_calls = <<>>
       /\ http_gets = <<>>
       /\ input_messages = << UserMessage >>
       /\ Len(requests) = 1

C4_Witness ==
    /\ tool_call # Unset
    /\ HasAttr(tool_call, "arguments")
    /\ tool_call.arguments = ArgsCutString
    /\ error = "JSONDecodeError"

----------------------------------------------------------------------------
(* The flow's state machine *)

\* The state of the flow a position of the run belongs to.
FlowState ==
    CASE pc \in {"input", "create"} -> "AWAITING_USER_INPUT"
      [] pc \in {"create_wait", "dispatch"} -> "MODEL_RESPONDING"
      [] pc \in {"get_weather_wait", "followup"} -> "EXECUTING_TOOL"
      [] pc = "followup_wait" -> "AWAITING_FOLLOWUP_RESPONSE"
      [] pc = "done" -> "DONE"
      [] pc = "error" -> "ERROR"

FlowEdges ==
    { <<"AWAITING_USER_INPUT", "MODEL_RESPONDING">>,
      <<"MODEL_RESPONDING", "EXECUTING_TOOL">>,
      <<"EXECUTING_TOOL", "AWAITING_FOLLOWUP_RESPONSE">>,
      <<"AWAITING_FOLLOWUP_RESPONSE", "DONE">>,
      <<"MODEL_RESPONDING", "DONE">> }

\* An unrecovered error leaves the flow from any state but DONE.
ErrorEdges ==
    { <<s, "ERROR">> : s \in {"MODEL_RESPONDING", "EXECUTING_TOOL",
                              "AWAITING_FOLLOWUP_RESPONSE"} }

FlowStep ==
    \/ FlowState' = FlowState
    \/ <<FlowState, FlowState'>> \in FlowEdges \cup ErrorEdges

FlowOrder ==
    /\ Len(requests) <= 2
    /\ Len(weather_calls) <= 1
    /\ Len(http_gets) <= 1
    /\ (Len(weather_calls) > 0 => response # Unset /\ Len(requests) >= 1)
    /\ (Len(requests) = 2 => result # Unset /\ weather_reply # Unset)
    /\ (pc = "done" => Len(requests) = 2 /\ Len(printed) = 1)

C6_GetWeatherCalledWithParsedArguments ==
    /\ (/\ args # Unset
        /\ args.t = "dict"
        /\ {"latitude", "longitude"} \subseteq DOMAIN args.items)
       => /\ weather_calls = << [latitude |-> args.items["latitude"],
                                 longitude |-> args.items["longitude"]] >>
          /\ Len(http_gets) = 1
          /\ http_gets[1].latitude = str(args.items["latitude"])
          /\ http_gets[1].longitude = str(args.items["longitude"])
    /\ (/\ Dispatched
        /\ tool_call # Unset
        /\ HasAttr(tool_call, "arguments")
        /\ tool_call.arguments \in {ArgsTokyo, ArgsLonFirst})
       => /\ weather_calls =
                << [latitude |-> PyFloat(FALSE, 35, <<6, 8, 2, 8, 3, 9>>),
                    longitude |-> PyFloat(FALSE, 139, <<7, 5, 9, 4, 5, 5>>)] >>
          /\ http_gets[1].latitude = "35.682839"
          /\ http_gets[1].longitude = "139.759455"

C6_Witness ==
    /\ Len(weather_calls) = 1
    /\ tool_call.arguments = ArgsLonFirst
    /\ http_gets[1].longitude = "139.759455"

\* What Python's str() gives for the value at current.temperature_2m of
\* each reply that has one; get_weather raises on the other replies.
ExpectedOutput(body) ==
    CASE body \in {BodyTempOnly(T20_5), BodyFull(T20_5)} -> "20.5"
      [] body = BodyFull(Temp(TRUE, <<3>>, <<>>)) -> "-3"
      [] body = BodyFull(Temp(FALSE, <<1, 8>>, <<0>>)) -> "18.0"
      [] body = BodyFull(LitTok("null")) -> "None"
      [] OTHER -> "(the reply has no current.temperature_2m)"

\* C7: the output of the appended function_call_output item is exactly the
\* string form of current.temperature_2m of the weather reply, nothing else
\* ({"current":{"temperature_2m":20.5}} gives "20.5").
C7_OutputIsStrOfTemperature ==
    \A i \in Positions(input_messages, IsFunctionCallOutput) :
        input_messages[i].output = ExpectedOutput(weather_reply.body)

C7_Witness ==
    /\ Len(input_messages) = 3
    /\ weather_reply.body = BodyTempOnly(T20_5)
    /\ input_messages[3].output = "20.5"

DispatchErrors == {"response.output[0]", "tool_call.arguments", "json.loads", "args[...]"}

\* KeyError and IndexError are the LookupErrors of Python.
LookupErrors == {"LookupError", "KeyError", "IndexError"}

\* C8 as stated: a function-call item that names a function other than
\* get_weather makes dispatch fail with a LookupError; get_weather and the
\* weather endpoint are not called and no function_call_output is appended.
C8_UnknownNameRaisesLookupError ==
    (/\ Dispatched
     /\ tool_call # Unset
     /\ HasAttr(tool_call, "name")
     /\ tool_call.name # "get_weather")
    => /\ pc = "error"
       /\ error \in LookupErrors
       /\ weather_calls = <<>>
       /\ http_gets = <<>>
       /\ Positions(input_messages, IsFunctionCallOutput) = {}

\* C8 amended: the dispatcher never reads the name. A function-call item
\* naming another function, whose arguments are an object with latitude and
\* longitude, gets get_weather and the weather endpoint called once with
\* those values; dispatch raises nothing, and once the weather reply has
\* given a temperature a function_call_output with its call_id is appended.
C8_NameIsNeverRead ==
    (/\ Dispatched
     /\ tool_call # Unset
     /\ HasAttr(tool_call, "name")
     /\ tool_call.name # "get_weather"
     /\ tool_call.arguments \in {ArgsTokyo, ArgsLonFirst, ArgsSydney})
    => /\ Len(weather_calls) = 1
       /\ Len(http_gets) = 1
       /\ error_at \notin DispatchErrors
       /\ error \notin LookupErrors \ {"KeyError"}
       /\ (error = "KeyError" => error_at = "get_weather")
       /\ (pc \in {"followup_wait", "done"} =>
             /\ Len(input_messages) = 3
             /\ input_messages[2] = tool_call
             /\ IsFunctionCallOutput(input_messages[3])
             /\ input_messages[3].call_id = tool_call.call_id)

C8_Witness ==
    /\ pc = "done"
    /\ tool_call.name = "get_time"
    /\ Len(weather_calls) = 1
    /\ Positions(input_messages, IsFunctionCallOutput) # {}

TransportErrors == {"APIConnectionError", "ConnectionError"}

NoRetryState ==
    /\ Cardinality(Positions(requests, LAMBDA r : r.input = << UserMessage >>)) <= 1
    /\ Cardinality(Positions(requests, LAMBDA r : Len(r.input) > 1)) <= 1
    /\ Len(requests) <= 2
    /\ Len(http_gets) <= 1
    /\ Len(weather_calls) <= 1
    /\ (error \in TransportErrors => pc = "error")
    /\ (error_at = "client.responses.create" =>
            /\ Len(requests) = 1
            /\ response = Unset /\ tool_call = Unset /\ args = Unset
            /\ weather_calls = <<>> /\ http_gets = <<>>
            /\ input_messages = << UserMessage >>)
    /\ (error_at = "requests.get" =>
            /\ Len(requests) = 1 /\ Len(http_gets) = 1
            /\ result = Unset
            /\ input_messages = << UserMessage >>)
    /\ (error_at = "client.responses.create (follow-up)" =>
            /\ Len(requests) = 2 /\ Len(http_gets) = 1
            /\ printed = <<>>)

\* C9: nothing is retried. Each of the first completion request, the weather
\* request and the follow-up request is attempted at most once, and a
\* transport failure of any of them ends the run: no later step runs.
C9_NoRetry ==
    /\ []NoRetryState
    /\ [][pc # "error"]_vars

C9_Witness ==
    /\ pc = "error"
    /\ error = "ConnectionError"
    /\ error_at = "requests.get"
    /\ Len(http_gets) = 1

\* C10 as stated: every function-call item of the response is dispatched, so
\* the follow-up request holds one function_call_output per function-call
\* item of the response, each after its call and in the response's order.
C10_EveryFunctionCallAnswered ==
    Len(requests) = 2 =>
        LET calls == Positions(response.output, IsFunctionCall)
            outs == Positions(requests[2].input, IsFunctionCallOutput)
        IN  /\ Cardinality(outs) = Cardinality(calls)
            /\ Len(weather_calls) = Cardinality(calls)

\* C10 amended: only response.output[0] is dispatched. When the response
\* carries several function-call items, at most one get_weather call is
\* made, and the follow-up request holds exactly one function-call item,
\* response.output[0], and exactly one function_call_output, for it; the
\* function-call items after the first are never parsed nor answered.
C10_OnlyFirstItemDispatched ==
    (/\ response # Unset
     /\ Cardinality(Positions(response.output, IsFunctionCall)) >= 2)
    => /\ Len(weather_calls) <= 1
       /\ (tool_call # Unset => tool_call = response.output[1])
       /\ (Len(requests) = 2 =>
             LET b == requests[2].input IN
             /\ Positions(b, IsFunctionCall) = {2}
             /\ b[2] = response.output[1]
             /\ Positions(b, IsFunctionCallOutput) = {3}
             /\ b[3].call_id = response.output[1].call_id)

C10_Witness ==
    /\ Len(requests) = 2
    /\ Cardinality(Positions(response.output, IsFunctionCall)) = 2
    /\ response.output[1].call_id # response.output[2].call_id
====
